---- MODULE Spec2Model ----
(***************************************************************************)
(* The bridge between the UI thread and the embedded editor process        *)
(* (src/bridge/mod.rs): Bridge::new / start_process (spawn, supervisory    *)
(* task, handshake, command pump), Bridge::queue_command, drain and        *)
(* handle_current_commands.                                                *)
(*                                                                         *)
(* A UiCommand is a record [id, kind]: id is the position of its           *)
(* queue_command call in the order of calls, kind is its variant.          *)
(***************************************************************************)
EXTENDS Integers, Sequences, FiniteSets, TLC

\* Number of queue_command calls the UI side makes in a run.
MaxCommands == 4

\* Number of threads that may reference BRIDGE.
NumThreads == 2

Threads == 1..NumThreads

VARIABLES
    start,        \* position of Bridge::new / start_process
    requests,     \* startup requests issued to the editor and their results, in order
    io_handler,   \* the RPC I/O loop future: "none", "running", or its result
    supervisor,   \* the task of lines 80-87: "none", "awaiting", "exit" (at line 86)
    host,         \* "running", "exit(0)" or "panic"
    explanation,  \* title of the explained panic, "" when there is none
    stderr,       \* lines printed by eprintln!
    sender,       \* number of live producer ends of the channel
    receiver,     \* holder of the consumer end: "none", "start_process", "pump", "dropped"
    queue,        \* contents of the unbounded channel
    pump,         \* position of the command pump task
    results,      \* drain's local vector (the batch under construction / drained)
    todo,         \* commands of the current batch still to be executed, in order
    outstanding,  \* the execute calls issued and not yet returned, oldest first
    executed,     \* execute calls issued to the editor, in order
    enqueued,     \* commands accepted by the channel, in order
    batches,      \* batches returned by drain, in order
    calls,        \* number of queue_command calls made so far
    threads,      \* per thread: "idle", "new" (runs Bridge::new), "blocked" (waits for BRIDGE)
    constructions,\* number of times Bridge::new was entered
    editors,      \* number of editor processes spawned
    pumps,        \* number of command pump tasks spawned
    nvim          \* requests written to the session during start_process, in order

vars == <<start, requests, io_handler, supervisor, host, explanation, stderr,
          sender, receiver, queue, pump, results, todo, outstanding, executed,
          enqueued, batches, calls, threads, constructions, editors, pumps, nvim>>

startVars   == <<start, requests>>
ioVars      == <<io_handler, supervisor>>
hostVars    == <<host, explanation, stderr>>
chanVars    == <<sender, receiver, queue>>
pumpVars    == <<pump, results, todo, outstanding, executed, batches>>
uiVars      == <<enqueued, calls>>
onceVars    == <<threads, constructions>>
countVars   == <<editors, pumps, nvim>>

----------------------------------------------------------------------------
(* UiCommand                                                               *)

Kinds == {"Resize", "Input"}

UiCommand == [id : 1..MaxCommands, kind : Kinds]

is_resize(command) == command.kind = "Resize"

----------------------------------------------------------------------------
(* Sequence helpers                                                        *)

Last(s) == s[Len(s)]

Range(s) == {s[i] : i \in 1..Len(s)}

\* Iterator::partition (line 59-61): the two halves keep the relative order.
resize_list(commands) == SelectSeq(commands, is_resize)

not_resize(command) == ~is_resize(command)

other_commands(commands) == SelectSeq(commands, not_resize)

Reverse(s) == [i \in 1..Len(s) |-> s[Len(s) + 1 - i]]

\* Variant: the first resize of the batch survives instead of the last.
resize_command_first(commands) ==
    IF resize_list(commands) = <<>> THEN <<>> ELSE <<Head(resize_list(commands))>>

\* Variant: every resize of the batch is executed, newest first.
resize_command_all_rev(commands) == Reverse(resize_list(commands))

\* lines 62-64: only resize_list.into_iter().last() is executed.
resize_command(commands) ==
    IF resize_list(commands) = <<>> THEN <<>> ELSE <<Last(resize_list(commands))>>

\* Variant: the other commands run only when the batch holds no resize.
execution_order_else(commands) ==
    IF resize_list(commands) = <<>>
    THEN other_commands(commands)
    ELSE <<Last(resize_list(commands))>>

\* Variant: the surviving resize runs after the other commands.
execution_order_resize_last(commands) ==
    other_commands(commands) \o
    (IF resize_list(commands) = <<>> THEN <<>> ELSE <<Last(resize_list(commands))>>)

\* What handle_current_commands executes for a drained batch, in order:
\* the surviving resize (lines 62-64), then the other commands (lines 66-68).
execution_order(commands) == resize_command(commands) \o other_commands(commands)

----------------------------------------------------------------------------
(* Explained panics and error titles                                       *)

\* Variant: ui_attach reuses the title of set_var.
attach_title_copied == "Could not communicate."

spawn_title    == "Could not create nvim process"
set_var_title  == "Could not communicate."
attach_title   == "Could not attach."
send_title     == "Could Not Send UI Command"

\* ResultPanicExplanation::unwrap_or_explained_panic: Ok unwraps, Err stops
\* the host with the title as explanation.
unwrap_or_explained_panic(result, title) ==
    IF result = "Ok"
    THEN host' = host /\ explanation' = explanation
    ELSE host' = "panic" /\ explanation' = title

Running == host = "running"

\* line 76: (width, height), defined by the crate.
INITIAL_DIMENSIONS == <<"width", "height">>

IoDone == io_handler \in {"Ok", "RpcErr", "JoinErr"}

----------------------------------------------------------------------------
Init ==
    /\ start = "uninit"
    /\ requests = <<>>
    /\ io_handler = "none"
    /\ supervisor = "none"
    /\ host = "running"
    /\ explanation = ""
    /\ stderr = <<>>
    /\ sender = 0
    /\ receiver = "none"
    /\ queue = <<>>
    /\ pump = "none"
    /\ results = <<>>
    /\ todo = <<>>
    /\ outstanding = <<>>
    /\ executed = <<>>
    /\ enqueued = <<>>
    /\ batches = <<>>
    /\ calls = 0
    /\ threads = [t \in Threads |-> "idle"]
    /\ constructions = 0
    /\ editors = 0
    /\ pumps = 0
    /\ nvim = <<>>

----------------------------------------------------------------------------
(* Bridge::new and start_process                                           *)

\* Variant: every reference to BRIDGE runs the initialiser.
every_reference == TRUE

\* lines 23-25: lazy_static runs the initialiser once, for the first
\* reference.
first_reference == start = "uninit"

\* Variant: ui_attach is issued before set_var.
handshake_order_swapped == <<"ui_attach", "set_var">>

\* lines 89, 94: the requests of the handshake, in the order they are issued.
handshake_order == <<"set_var", "ui_attach">>

\* Variant: ui_attach without the rgb option.
request_no_rgb(name) ==
    IF name = "set_var"
    THEN [method |-> "nvim_set_var", args |-> <<"neovide", "true">>, options |-> {}]
    ELSE [method |-> "nvim_ui_attach", args |-> INITIAL_DIMENSIONS,
          options |-> {"ext_linegrid"}]

\* lines 89, 91-94: what each request carries.
request(name) ==
    IF name = "set_var"
    THEN [method |-> "nvim_set_var", args |-> <<"neovide", "true">>, options |-> {}]
    ELSE [method |-> "nvim_ui_attach", args |-> INITIAL_DIMENSIONS,
          options |-> {"ext_linegrid", "rgb"}]

\* lines 23-25, 113-118: the first reference to BRIDGE runs Bridge::new, which
\* creates the runtime and the channel and blocks on start_process; the
\* receiver moves into start_process, which calls new_child_cmd (line 77).
Bridge_new(t) ==
    /\ Running
    /\ threads[t] = "idle"
    /\ first_reference
    /\ threads' = [threads EXCEPT ![t] = "new"]
    /\ constructions' = constructions + 1
    /\ start' = "new_child_cmd"
    /\ sender' = 1
    /\ receiver' = "start_process"
    /\ UNCHANGED <<requests, queue, ioVars, hostVars, pumpVars, uiVars, countVars>>

\* lines 23-25: a thread that references BRIDGE while another thread runs its
\* initialiser waits until that one is done.
BRIDGE_wait(t) ==
    /\ Running
    /\ threads[t] = "idle"
    /\ start \notin {"uninit", "ready"}
    /\ threads' = [threads EXCEPT ![t] = "blocked"]
    /\ UNCHANGED <<constructions, startVars, ioVars, hostVars, chanVars, pumpVars,
                   uiVars, countVars>>

\* lines 77-89: new_child_cmd returns. Ok: the I/O loop is running, the
\* supervisory task is spawned (lines 80-87) and set_var is issued (line 89).
\* Err: explained panic (line 78).
new_child_cmd(result) ==
    /\ Running
    /\ start = "new_child_cmd"
    /\ unwrap_or_explained_panic(result, spawn_title)
    /\ IF result = "Ok"
       THEN /\ io_handler' = "running"
            /\ supervisor' = "awaiting"
            /\ editors' = editors + 1
            /\ requests' = requests \o <<"spawn Ok", handshake_order[1]>>
            /\ nvim' = Append(nvim, request(handshake_order[1]))
            /\ start' = handshake_order[1]
       ELSE /\ requests' = Append(requests, "spawn Err")
            /\ UNCHANGED <<io_handler, supervisor, start, editors, nvim>>
    /\ UNCHANGED <<stderr, chanVars, pumpVars, uiVars, onceVars, pumps>>

\* lines 89-94: set_var returns. Ok (the I/O loop delivered the reply):
\* ui_attach is issued. Err (an error reply, or the session closed):
\* explained panic (line 90).
set_var(result) ==
    /\ Running
    /\ start = "set_var"
    /\ result = "Ok" => io_handler = "running"
    /\ unwrap_or_explained_panic(result, set_var_title)
    /\ IF result = "Ok"
       THEN /\ requests' = requests \o <<"set_var Ok", handshake_order[2]>>
            /\ nvim' = Append(nvim, request(handshake_order[2]))
            /\ start' = handshake_order[2]
       ELSE /\ requests' = Append(requests, "set_var Err")
            /\ UNCHANGED <<start, nvim>>
    /\ UNCHANGED <<stderr, ioVars, chanVars, pumpVars, uiVars, onceVars, editors, pumps>>

\* Variant: the pump is spawned whatever ui_attach returned.
spawns_pump_unchecked(result) == TRUE

\* Whether the command pump is spawned once ui_attach has returned `result`
\* (lines 94-98: only past the unwrap of line 95).
spawns_pump(result) == result = "Ok"

\* lines 94-104: ui_attach returns. Ok: the pump task is spawned with the
\* receiver and start_process returns. Err: explained panic (line 95).
ui_attach(result) ==
    /\ Running
    /\ start = "ui_attach"
    /\ result = "Ok" => io_handler = "running"
    /\ unwrap_or_explained_panic(result, attach_title)
    /\ IF spawns_pump(result)
       THEN /\ pump' = "recv"
            /\ pumps' = pumps + 1
            /\ receiver' = "pump"
            /\ start' = "block_on"
       ELSE UNCHANGED <<pump, pumps, receiver, start>>
    /\ requests' = Append(requests, IF result = "Ok" THEN "ui_attach Ok" ELSE "ui_attach Err")
    /\ UNCHANGED <<stderr, ioVars, sender, queue, results, todo,
                   outstanding, executed, batches, uiVars, onceVars, editors, nvim>>

\* lines 117-121: block_on returns and the Bridge is constructed; BRIDGE is
\* initialised, the waiting threads go on and its methods can be called.
Bridge_ready ==
    /\ Running
    /\ start = "block_on"
    /\ start' = "ready"
    /\ threads' = [t \in Threads |-> "idle"]
    /\ UNCHANGED <<constructions, requests, ioVars, hostVars, chanVars, pumpVars,
                   uiVars, countVars>>

----------------------------------------------------------------------------
(* The RPC I/O loop and the supervisory task                               *)

IoResults == {"Ok", "RpcErr", "JoinErr"}

\* The future awaited at line 81 completes: the editor went away or the
\* loop failed.
io_loop_ends(result) ==
    /\ Running
    /\ io_handler = "running"
    /\ io_handler' = result
    /\ UNCHANGED <<supervisor, startVars, hostVars, chanVars, pumpVars, uiVars,
                   onceVars, countVars>>

\* lines 82-84: what the supervisory task prints for each result.
io_message(result) ==
    CASE result = "JoinErr" -> <<"Error joining IO loop">>
      [] result = "RpcErr"  -> <<"Error">>
      [] OTHER              -> <<>>

\* Variant: the supervisory task returns without exiting the process.
supervisor_no_exit == "running"

\* The state the supervisory task leaves the host in (line 86).
supervisor_exit_state == "exit(0)"

\* lines 80-87: the supervisory task resumes after io_handler completed,
\* prints the error if any and exits the process.
supervisor_exit ==
    /\ Running
    /\ supervisor = "awaiting"
    /\ IoDone
    /\ stderr' = stderr \o io_message(io_handler)
    /\ supervisor' = "exit"
    /\ host' = supervisor_exit_state
    /\ UNCHANGED <<explanation, io_handler, startVars, chanVars, pumpVars, uiVars,
                   onceVars, countVars>>

----------------------------------------------------------------------------
(* Bridge::queue_command                                                   *)

\* Variant: a send that never reports the consumer end gone.
send_unchecked(command) == "Ok"

\* UnboundedSender::send (line 125): fails only when the consumer end is gone.
send(command) == IF receiver = "dropped" THEN "Err" ELSE "Ok"

\* Variant: the command goes to the head.
push_front(command) == <<command>> \o queue

\* The channel after a successful send: the command goes to the tail.
push(command) == Append(queue, command)

\* What has to hold for a queue_command call to go ahead: the Bridge exists
\* and holds its sender (lines 23-25, 109, 124); nothing about the queue or
\* the pump.
can_queue == start = "ready" /\ sender > 0

\* lines 124-129.
queue_command(kind) ==
    /\ Running
    /\ can_queue
    /\ calls < MaxCommands
    /\ LET command == [id |-> calls + 1, kind |-> kind] IN
       /\ calls' = calls + 1
       /\ unwrap_or_explained_panic(send(command), send_title)
       /\ IF send(command) = "Ok"
          THEN /\ queue' = push(command)
               /\ enqueued' = Append(enqueued, command)
          ELSE UNCHANGED <<queue, enqueued>>
    /\ UNCHANGED <<stderr, sender, receiver, startVars, ioVars, pumpVars, onceVars,
                   countVars>>

----------------------------------------------------------------------------
(* The command pump: drain and handle_current_commands                     *)

\* Variant: an empty channel is reported closed.
recv_result_empty_is_closed == IF queue # <<>> THEN "Some" ELSE "None"

\* Variant: a channel without senders is reported closed whatever it holds.
recv_result_closed_first ==
    IF sender = 0 THEN "None" ELSE IF queue # <<>> THEN "Some" ELSE "Pending"

\* line 46: what receiver.recv() resolves to: the next command, None when
\* the channel is empty and every sender is gone, and otherwise nothing yet.
recv_result ==
    IF queue # <<>> THEN "Some" ELSE IF sender = 0 THEN "None" ELSE "Pending"

\* Variant: the sweep stops although commands are queued.
try_recv_result_stops == "Err"

\* line 48: what receiver.try_recv() returns.
try_recv_result == IF queue # <<>> THEN "Ok" ELSE "Err"

\* Variant: the call is not awaited: the task goes on at once.
after_issue_detached(rest) == IF rest = <<>> THEN "recv" ELSE "execute"

\* lines 63, 67: `.await`: the task is suspended until the call returns.
after_issue(rest) == "await"

\* line 46: receiver.recv().await. Some(command) when the channel holds one;
\* None when it is empty and every sender is gone, and then drain returns
\* None, handle_current_commands returns false and the loop breaks (lines
\* 52-53, 70-71, 100-102), which ends the task and drops the receiver;
\* otherwise the task stays suspended.
recv ==
    /\ Running
    /\ pump = "recv"
    /\ recv_result # "Pending"
    /\ IF recv_result = "Some"
       THEN /\ results' = <<Head(queue)>>
            /\ queue' = Tail(queue)
            /\ pump' = "try_recv"
            /\ UNCHANGED receiver
       ELSE /\ pump' = "done"
            /\ receiver' = "dropped"
            /\ UNCHANGED <<results, queue>>
    /\ UNCHANGED <<sender, todo, outstanding, executed, batches, startVars,
                   ioVars, hostVars, uiVars, onceVars, countVars>>

\* lines 48-50: try_recv returns Ok(command), which is pushed.
try_recv ==
    /\ Running
    /\ pump = "try_recv"
    /\ try_recv_result = "Ok"
    /\ queue # <<>>
    /\ results' = Append(results, Head(queue))
    /\ queue' = Tail(queue)
    /\ UNCHANGED <<pump, sender, receiver, todo, outstanding, executed, batches,
                   startVars, ioVars, hostVars, uiVars, onceVars, countVars>>

\* lines 48, 51, 58-62: try_recv returns Err, drain returns Some(results) and
\* handle_current_commands partitions the batch.
drain ==
    /\ Running
    /\ pump = "try_recv"
    /\ try_recv_result = "Err"
    /\ batches' = Append(batches, results)
    /\ todo' = execution_order(results)
    /\ pump' = "execute"
    /\ UNCHANGED <<results, outstanding, executed, chanVars, startVars, ioVars,
                   hostVars, uiVars, onceVars, countVars>>

\* lines 63, 67: the next command's execute call is issued to the editor.
execute ==
    /\ Running
    /\ pump = "execute"
    /\ io_handler = "running"
    /\ todo # <<>>
    /\ executed' = Append(executed, Head(todo))
    /\ outstanding' = Append(outstanding, Head(todo))
    /\ todo' = Tail(todo)
    /\ pump' = after_issue(Tail(todo))
    /\ UNCHANGED <<results, batches, chanVars, startVars, ioVars, hostVars, uiVars,
                   onceVars, countVars>>

\* lines 63, 67-69, 100: the editor acknowledged the call: the next command of the
\* batch, or the next cycle.
execute_returns ==
    /\ Running
    /\ pump = "await"
    /\ io_handler = "running"
    /\ outstanding # <<>>
    /\ outstanding' = Tail(outstanding)
    /\ pump' = IF todo = <<>> THEN "recv" ELSE "execute"
    /\ UNCHANGED <<results, todo, executed, batches, chanVars, startVars, ioVars,
                   hostVars, uiVars, onceVars, countVars>>

\* UiCommand::execute on a session whose I/O loop has ended: the call cannot
\* complete and the pump task ends with it, dropping the receiver
\* ("runs until the CommandQueue is closed or the editor exits").
execute_fails ==
    /\ Running
    /\ pump \in {"execute", "await"}
    /\ IoDone
    /\ pump' = "dead"
    /\ receiver' = "dropped"
    /\ UNCHANGED <<results, todo, outstanding, executed, batches, sender, queue,
                   startVars, ioVars, hostVars, uiVars, onceVars, countVars>>

----------------------------------------------------------------------------
Results == {"Ok", "Err"}

Next ==
    \/ \E t \in Threads : Bridge_new(t)
    \/ \E t \in Threads : BRIDGE_wait(t)
    \/ \E result \in Results : new_child_cmd(result)
    \/ \E result \in Results : set_var(result)
    \/ \E result \in Results : ui_attach(result)
    \/ Bridge_ready
    \/ \E result \in IoResults : io_loop_ends(result)
    \/ supervisor_exit
    \/ \E kind \in Kinds : queue_command(kind)
    \/ recv
    \/ try_recv
    \/ drain
    \/ execute
    \/ execute_returns
    \/ execute_fails

Spec == Init /\ [][Next]_vars

\* The runtime schedules a task whose awaited future has completed.
FairSpec == Spec /\ WF_vars(supervisor_exit)

\* The runtime also schedules the pump task whenever it can go on, and the
\* editor answers every call for as long as its I/O loop runs.
PumpSpec ==
    /\ FairSpec
    /\ WF_vars(recv)
    /\ WF_vars(try_recv)
    /\ WF_vars(drain)
    /\ WF_vars(execute)
    /\ WF_vars(execute_returns)

\* "Closing the producer end signals orderly shutdown": the holder of a
\* producer end of the CommandQueue releases it.
release_sender ==
    /\ Running
    /\ start = "ready"
    /\ sender > 0
    /\ sender' = sender - 1
    /\ UNCHANGED <<receiver, queue, startVars, ioVars, hostVars, pumpVars, uiVars,
                   onceVars, countVars>>

CloseNext == Next \/ release_sender

\* The program with a producer end that can be released, a runtime that
\* schedules every task that can go on, and an editor that answers every call
\* for as long as its I/O loop runs.
CloseSpec ==
    /\ Init
    /\ [][CloseNext]_vars
    /\ WF_vars(supervisor_exit)
    /\ WF_vars(recv)
    /\ WF_vars(try_recv)
    /\ WF_vars(drain)
    /\ WF_vars(execute)
    /\ WF_vars(execute_returns)

----------------------------------------------------------------------------
(* Properties                                                              *)

\* Position of command c in sequence s, 0 when it does not occur.
Pos(s, c) == IF \E i \in 1..Len(s) : s[i] = c
             THEN CHOOSE i \in 1..Len(s) : s[i] = c
             ELSE 0

Occurs(s, c) == \E i \in 1..Len(s) : s[i] = c

\* Index of the batch that holds command c, 0 when it was not drained yet.
BatchOf(c) == IF \E k \in 1..Len(batches) : Occurs(batches[k], c)
              THEN CHOOSE k \in 1..Len(batches) : Occurs(batches[k], c)
              ELSE 0

\* The cycle of batch k is over: the pump went on to a later batch or is back
\* in recv.
CycleOver(k) == k < Len(batches) \/ pump = "recv"

\* C1: two non-resize commands are executed in the order they were enqueued:
\* when the later one has been issued to the editor, the earlier one was
\* issued before it.
C1_NonResizeFifo ==
    \A i, j \in 1..Len(enqueued) :
        (/\ i < j
         /\ ~is_resize(enqueued[i])
         /\ ~is_resize(enqueued[j])
         /\ Occurs(executed, enqueued[j]))
        => /\ Occurs(executed, enqueued[i])
           /\ Pos(executed, enqueued[i]) < Pos(executed, enqueued[j])

\* Three non-resize commands were executed, two drained in one batch and one
\* in another.
C1_Witness ==
    \E a, b, c \in Range(executed) :
        /\ ~is_resize(a) /\ ~is_resize(b) /\ ~is_resize(c)
        /\ a.id < b.id /\ b.id < c.id
        /\ BatchOf(a) = BatchOf(b)
        /\ BatchOf(b) # BatchOf(c)

\* C2: the resizes executed are in enqueue order: a resize is never executed
\* after a resize that was enqueued later.
C2_ResizeMonotone ==
    \A p, q \in 1..Len(executed) :
        (p < q /\ is_resize(executed[p]) /\ is_resize(executed[q]))
        => Pos(enqueued, executed[p]) < Pos(enqueued, executed[q])

\* Two resizes were executed and a third, enqueued between them, was not.
C2_Witness ==
    \E a, b, c \in Range(enqueued) :
        /\ is_resize(a) /\ is_resize(b) /\ is_resize(c)
        /\ a.id < b.id /\ b.id < c.id
        /\ Occurs(executed, a) /\ ~Occurs(executed, b) /\ Occurs(executed, c)

\* C3: of the resizes of a drained batch none but the last is ever executed,
\* it is executed at most once, and it has been executed when the cycle of
\* its batch is over.
C3_ResizeCoalescing ==
    \A k \in 1..Len(batches) :
        LET R == resize_list(batches[k]) IN
        /\ \A i \in 1..Len(R) : Occurs(executed, R[i]) => i = Len(R)
        /\ Cardinality({p \in 1..Len(executed) : Occurs(R, executed[p])}) <= 1
        /\ (CycleOver(k) /\ R # <<>>) => Occurs(executed, Last(R))

\* A batch with two resizes was handled, its last resize executed, and a
\* later batch was handled after it.
C3_Witness ==
    /\ Len(batches) >= 2
    /\ Len(resize_list(batches[1])) >= 2
    /\ Occurs(executed, Last(resize_list(batches[1])))
    /\ pump = "recv"

\* C5: no command is executed twice, only enqueued (and drained) commands are
\* executed, and once the cycle of a batch is over every non-resize command
\* of the batch has been executed.
C5_NoDropNoDuplicate ==
    /\ \A p, q \in 1..Len(executed) : p # q => executed[p] # executed[q]
    /\ \A p \in 1..Len(executed) :
           Occurs(enqueued, executed[p]) /\ BatchOf(executed[p]) # 0
    /\ \A k \in 1..Len(batches) :
           CycleOver(k) =>
               \A i \in 1..Len(batches[k]) :
                   ~is_resize(batches[k][i]) => Occurs(executed, batches[k][i])

\* A batch with a discarded resize, a surviving resize and two other commands
\* was handled completely.
C5_Witness ==
    \E k \in 1..Len(batches) :
        /\ CycleOver(k)
        /\ Len(resize_list(batches[k])) >= 2
        /\ Len(other_commands(batches[k])) >= 2
        /\ \A i \in 1..Len(batches[k]) :
               ~is_resize(batches[k][i]) => Occurs(executed, batches[k][i])

\* C6, as claimed: for a non-resize command c and an executed resize r, the
\* one enqueued first is executed first.
C6_CrossFifo ==
    \A c, r \in Range(enqueued) :
        (~is_resize(c) /\ is_resize(r) /\ Occurs(executed, r)) =>
            /\ c.id < r.id =>
                   (Occurs(executed, c) /\ Pos(executed, c) < Pos(executed, r))
            /\ (r.id < c.id /\ Occurs(executed, c)) =>
                   Pos(executed, r) < Pos(executed, c)

\* C6, amended: for a non-resize command c and an executed resize r drained
\* in different batches the one enqueued first is executed first; when they
\* were drained in the same batch r is executed first, whichever was enqueued
\* first; a resize enqueued before c is never executed after c.
C6_CrossFifoAcrossBatches ==
    \A c, r \in Range(enqueued) :
        (~is_resize(c) /\ is_resize(r) /\ Occurs(executed, r)) =>
            /\ (c.id < r.id /\ BatchOf(c) # BatchOf(r)) =>
                   (Occurs(executed, c) /\ Pos(executed, c) < Pos(executed, r))
            /\ (BatchOf(c) = BatchOf(r) /\ Occurs(executed, c)) =>
                   Pos(executed, r) < Pos(executed, c)
            /\ (r.id < c.id /\ Occurs(executed, c)) =>
                   Pos(executed, r) < Pos(executed, c)

\* A resize was executed before a non-resize command of its batch that was
\* enqueued before it, and after a non-resize command of an earlier batch.
C6_Witness ==
    \E b, c, r \in Range(executed) :
        /\ ~is_resize(b) /\ ~is_resize(c) /\ is_resize(r)
        /\ b.id < c.id /\ c.id < r.id
        /\ BatchOf(b) < BatchOf(c)
        /\ BatchOf(c) = BatchOf(r)
        /\ Pos(executed, b) < Pos(executed, r)
        /\ Pos(executed, r) < Pos(executed, c)

\* C4: while ui_attach has not returned Ok there is no pump task, no command
\* has been executed and none is in flight; no queue_command call is made
\* before Bridge::new has returned; and Bridge::new has returned only if
\* set_var and ui_attach returned Ok and the pump was spawned.
C4_HandshakePrecedesTraffic ==
    /\ ~Occurs(requests, "ui_attach Ok") =>
           /\ pump = "none"
           /\ executed = <<>>
           /\ outstanding = <<>>
           /\ receiver # "pump"
    /\ start # "ready" => (calls = 0 /\ enqueued = <<>> /\ queue = <<>>)
    /\ start = "ready" =>
           /\ Occurs(requests, "set_var Ok")
           /\ Occurs(requests, "ui_attach Ok")
           /\ pump # "none"

\* A command was issued to the editor after the handshake had completed.
C4_Witness ==
    /\ executed # <<>>
    /\ requests = <<"spawn Ok", "set_var", "set_var Ok", "ui_attach", "ui_attach Ok">>

\* C7, as claimed: (b) the host has terminated only in states where the I/O
\* loop is not running, and (a) once the I/O loop has ended the supervisory
\* task eventually exits the process.
C7_ExitIffIoLoopEnded ==
    /\ [](~Running => io_handler # "running")
    /\ (IoDone ~> host = "exit(0)")

\* C7, amended: (a) once the I/O loop has ended the host eventually
\* terminates; (b) the host exits with status 0 only after the I/O loop has
\* ended, a queue_command failure stops it only after the I/O loop has ended,
\* and while the loop is running the host is stopped by nothing but the
\* explained panics of set_var and ui_attach.
C7_ExitPropagation ==
    /\ [](host = "exit(0)" => IoDone)
    /\ []((host = "panic" /\ explanation = "Could Not Send UI Command") => IoDone)
    /\ []((~Running /\ io_handler = "running") =>
             /\ host = "panic"
             /\ explanation \in {"Could not communicate.", "Could not attach."})
    /\ (IoDone ~> ~Running)

\* The I/O loop ended with an error while the pump was at work and the
\* supervisory task printed it and exited the process.
C7_Witness ==
    /\ host = "exit(0)"
    /\ io_handler = "RpcErr"
    /\ stderr = <<"Error">>
    /\ executed # <<>>

\* C8: whenever the host has terminated after the I/O loop completed, it
\* exited with status 0.
C8_ExitStatusZero == (~Running /\ IoDone) => host = "exit(0)"

\* C9: a failed startup step stops the host with the explanation of that
\* step; it is the last step issued, the pump does not exist and no command
\* was queued or executed.
C9_StartupFailures ==
    LET Aborted(title) ==
            /\ host = "panic"
            /\ explanation = title
            /\ pump = "none"
            /\ receiver # "pump"
            /\ executed = <<>>
            /\ calls = 0
    IN  /\ Occurs(requests, "spawn Err") =>
               (Aborted("Could not create nvim process") /\ requests = <<"spawn Err">>)
        /\ Occurs(requests, "set_var Err") =>
               /\ Aborted("Could not communicate.")
               /\ requests = <<"spawn Ok", "set_var", "set_var Err">>
        /\ Occurs(requests, "ui_attach Err") =>
               /\ Aborted("Could not attach.")
               /\ requests = <<"spawn Ok", "set_var", "set_var Ok", "ui_attach",
                               "ui_attach Err">>

\* The running editor rejected ui_attach and the host stopped.
C9_Witness ==
    /\ Occurs(requests, "ui_attach Err")
    /\ io_handler = "running"
    /\ ~Running

\* C10: once the Bridge exists and the host runs, queue_command can be called
\* whatever the queue holds and wherever the pump is; a call appends the
\* command to the tail and leaves the host running when the pump task still
\* exists, and stops the host with 'Could Not Send UI Command', the queue
\* unchanged, when the pump task has ended.
C10_QueueCommand ==
    /\ []((start = "ready" /\ Running /\ calls < MaxCommands) =>
             \A kind \in Kinds : ENABLED queue_command(kind))
    /\ [][calls' # calls =>
             \E kind \in Kinds :
                 LET command == [id |-> calls + 1, kind |-> kind] IN
                 IF pump \in {"done", "dead"}
                 THEN /\ host' = "panic"
                      /\ explanation' = "Could Not Send UI Command"
                      /\ queue' = queue
                      /\ enqueued' = enqueued
                 ELSE /\ host' = "running"
                      /\ queue' = Append(queue, command)
                      /\ enqueued' = Append(enqueued, command)]_vars

\* Commands were accepted while the pump was suspended on an execute call,
\* the pump then ended, and the next call failed without queuing its command.
C10_Witness ==
    /\ host = "panic"
    /\ explanation = "Could Not Send UI Command"
    /\ pump = "dead"
    /\ outstanding # <<>>
    /\ Len(queue) >= 2
    /\ calls = Len(enqueued) + 1

\* A resize that a later resize of the same batch supersedes.
Superseded(c) ==
    /\ is_resize(c)
    /\ BatchOf(c) # 0
    /\ \E i \in 1..Len(batches[BatchOf(c)]) :
           /\ batches[BatchOf(c)][i].kind = "Resize"
           /\ batches[BatchOf(c)][i].id > c.id

\* C11: the pump leaves its loop only from recv, with every producer end
\* released and the queue empty; it has then no batch in hand, and every
\* command that was enqueued has been drained and either executed or
\* superseded by a later resize of its batch; and once every producer end is
\* released the pump leaves its loop, as long as the editor's I/O loop runs.
C11_OrderlyTermination ==
    /\ [](pump = "done" =>
             /\ sender = 0
             /\ queue = <<>>
             /\ todo = <<>>
             /\ outstanding = <<>>
             /\ \A i \in 1..Len(enqueued) :
                    /\ BatchOf(enqueued[i]) # 0
                    /\ Occurs(executed, enqueued[i]) \/ Superseded(enqueued[i]))
    /\ [][(pump # "done" /\ pump' = "done") =>
             (pump = "recv" /\ queue = <<>> /\ sender = 0)]_vars
    /\ ((start = "ready" /\ sender = 0) ~> (pump = "done" \/ IoDone \/ ~Running))

\* The pump left its loop after two batches, one of them with a superseded
\* resize.
C11_Witness ==
    /\ pump = "done"
    /\ Len(batches) >= 2
    /\ \E i \in 1..Len(enqueued) : Superseded(enqueued[i])
    /\ Running

\* The pump is suspended in recv on an empty queue: everything that was
\* enqueued has been handled.
Quiescent == pump = "recv" /\ queue = <<>>

\* The batches that hold a resize.
ResizeBatches == {k \in 1..Len(batches) : resize_list(batches[k]) # <<>>}

\* C12, as claimed: when several resizes were enqueued and the pump has
\* handled everything, the editor has recorded exactly one resize, the last
\* one enqueued, and every non-resize command.
C12_OneResizeRecorded ==
    (Quiescent /\ Len(resize_list(enqueued)) >= 2) =>
        /\ resize_list(executed) = <<Last(resize_list(enqueued))>>
        /\ other_commands(executed) = other_commands(enqueued)

\* C12, amended: when several resizes were enqueued and the pump has handled
\* everything, the editor has recorded one resize for each batch that held
\* one, the last resize recorded is the last one enqueued, and every
\* non-resize command is recorded; when the pump drained all the commands in a
\* single batch, exactly one resize is recorded.
C12_OneResizePerBatch ==
    (Quiescent /\ Len(resize_list(enqueued)) >= 2) =>
        /\ Len(resize_list(executed)) = Cardinality(ResizeBatches)
        /\ Last(resize_list(executed)) = Last(resize_list(enqueued))
        /\ other_commands(executed) = other_commands(enqueued)
        /\ Len(batches) = 1 =>
               resize_list(executed) = <<Last(resize_list(enqueued))>>

\* Resize, Input, Resize were drained in one batch: the second resize and the
\* input are recorded.
C12_Witness ==
    /\ Quiescent
    /\ Len(batches) = 1
    /\ Len(batches[1]) = 3
    /\ is_resize(batches[1][1]) /\ ~is_resize(batches[1][2]) /\ is_resize(batches[1][3])
    /\ executed = <<batches[1][3], batches[1][2]>>

\* A sequence that continues another one.
Extends(longer, shorter) ==
    /\ Len(longer) >= Len(shorter)
    /\ SubSeq(longer, 1, Len(shorter)) = shorter

\* C13: at most one pump task is ever spawned; the consumer end of the
\* channel is with the pump exactly while the pump task is alive; and a
\* command leaves the channel only in a step of the pump's recv or try_recv.
C13_SingleConsumer ==
    /\ [](pumps <= 1)
    /\ [](receiver = "pump" <=> pump \in {"recv", "try_recv", "execute", "await"})
    /\ [](receiver = "pump" => pumps = 1)
    /\ [][~Extends(queue', queue) =>
             /\ receiver = "pump"
             /\ pump \in {"recv", "try_recv"}
             /\ queue' = Tail(queue)
             /\ results' \in {<<Head(queue)>>, Append(results, Head(queue))}]_vars

\* The one pump task is in its sweep, has received two commands, and a
\* producer has already enqueued another one.
C13_Witness ==
    /\ pumps = 1
    /\ receiver = "pump"
    /\ pump = "try_recv"
    /\ Len(results) >= 2
    /\ queue # <<>>

\* The Bridge is constructed and the process runs.
BridgeAlive == start = "ready" /\ Running

Prefix(s, t) == Len(s) <= Len(t) /\ SubSeq(t, 1, Len(s)) = s

Count(s, x) == Cardinality({i \in 1..Len(s) : s[i] = x})

\* C15: the startup steps reach the editor in the order spawn, nvim_set_var
\* ("neovide", true), nvim_ui_attach(width, height, {ext_linegrid, rgb}), each
\* at most once; ui_attach is issued only after set_var returned Ok; and the
\* supervisory task exists once set_var is issued.
C15_HandshakeOrder ==
    /\ Prefix(nvim,
              <<[method |-> "nvim_set_var", args |-> <<"neovide", "true">>,
                 options |-> {}],
                [method |-> "nvim_ui_attach", args |-> <<"width", "height">>,
                 options |-> {"ext_linegrid", "rgb"}]>>)
    /\ \/ Prefix(requests, <<"spawn Ok", "set_var", "set_var Ok", "ui_attach", "ui_attach Ok">>)
       \/ requests = <<"spawn Err">>
       \/ requests = <<"spawn Ok", "set_var", "set_var Err">>
       \/ requests = <<"spawn Ok", "set_var", "set_var Ok", "ui_attach", "ui_attach Err">>
    /\ Count(requests, "set_var") = Len(SelectSeq(nvim, LAMBDA r : r.method = "nvim_set_var"))
    /\ Count(requests, "ui_attach") = Len(SelectSeq(nvim, LAMBDA r : r.method = "nvim_ui_attach"))
    /\ editors = Count(requests, "spawn Ok")
    /\ Occurs(requests, "set_var") => supervisor # "none"

\* The whole handshake went through.
C15_Witness ==
    /\ Len(nvim) = 2
    /\ Last(requests) = "ui_attach Ok"
    /\ supervisor = "awaiting"
    /\ pump = "recv"

RECURSIVE Flatten(_)
\* The sequences of ss, one after the other.
Flatten(ss) == IF ss = <<>> THEN <<>> ELSE Head(ss) \o Flatten(Tail(ss))

\* C16: the batches drain has returned, the batch it is sweeping and the
\* queue hold, in this order, exactly the commands in arrival order; recv
\* stays suspended on an empty open queue; drain returns a non-empty batch, at
\* a moment when the queue is empty; and while the batch is handled the queue
\* only grows.
C16_DrainYieldsQueue ==
    /\ [](Flatten(batches) \o (IF pump = "try_recv" THEN results ELSE <<>>) \o queue
              = enqueued)
    /\ [](\A k \in 1..Len(batches) : batches[k] # <<>>)
    /\ []((pump = "recv" /\ queue = <<>> /\ sender > 0) => ~ENABLED recv)
    /\ [][batches' # batches =>
             /\ queue = <<>> /\ queue' = <<>>
             /\ results # <<>>
             /\ batches' = Append(batches, results)]_vars
    /\ [][(pump = "execute" \/ pump = "await") => Extends(queue', queue)]_vars

\* A batch of two commands is being handled while two commands that arrived
\* after the sweep wait in the queue.
C16_Witness ==
    /\ pump \in {"execute", "await"}
    /\ Len(batches) >= 1
    /\ Len(Last(batches)) = 2
    /\ Len(queue) = 2
    /\ Flatten(batches) \o queue = enqueued

\* The execute calls issued for the commands of batch k, in order.
ExecutedOf(k) == SelectSeq(executed, LAMBDA c : Occurs(batches[k], c))

\* The last resize of batch b, if any, followed by its other commands in
\* arrival order.
ResizeThenOthers(b) ==
    LET R == SelectSeq(b, LAMBDA c : c.kind = "Resize")
        O == SelectSeq(b, LAMBDA c : c.kind # "Resize")
    IN  (IF R = <<>> THEN <<>> ELSE <<R[Len(R)]>>) \o O

\* C17: the execute calls of a batch are issued in the order surviving
\* resize, then the other commands in arrival order, all of them once the
\* cycle is over; a call is issued only when the previous one has returned;
\* and the next drain starts only when the batch is finished and its last
\* call has returned.
C17_ResizeFirstThenOthers ==
    /\ [](\A k \in 1..Len(batches) :
              /\ Prefix(ExecutedOf(k), ResizeThenOthers(batches[k]))
              /\ CycleOver(k) => ExecutedOf(k) = ResizeThenOthers(batches[k]))
    /\ [][executed' # executed => outstanding = <<>>]_vars
    /\ [][results' # results => (todo = <<>> /\ outstanding = <<>>)]_vars
    /\ [](pump = "recv" => (todo = <<>> /\ outstanding = <<>>))

\* A batch Input, Input, Resize was handled: the resize first, then the two
\* inputs in arrival order.
C17_Witness ==
    \E k \in 1..Len(batches) :
        /\ CycleOver(k)
        /\ Len(batches[k]) = 3
        /\ ~is_resize(batches[k][1]) /\ ~is_resize(batches[k][2]) /\ is_resize(batches[k][3])
        /\ ExecutedOf(k) = <<batches[k][3], batches[k][1], batches[k][2]>>

\* C18: at most one execute call of the pump is outstanding; while one is
\* outstanding the pump only awaits it (or has ended with the session, the
\* call never acknowledged): it takes no command out of the
\* queue and issues no other call, so without an acknowledgement every step
\* leaves the executed calls alone and the queue can only grow, while
\* queue_command still accepts commands.
C18_SequentialExecute ==
    /\ [](Len(outstanding) <= 1)
    /\ [](outstanding # <<>> =>
              /\ pump \in {"await", "dead"}
              /\ ~ENABLED recv /\ ~ENABLED try_recv /\ ~ENABLED drain
              /\ ~ENABLED execute)
    /\ [](pump = "await" => outstanding # <<>>)
    /\ []((outstanding # <<>> /\ start = "ready" /\ host = "running"
              /\ calls < MaxCommands)
            => \A kind \in {"Resize", "Input"} : ENABLED queue_command(kind))
    /\ [][(outstanding # <<>> /\ outstanding' = outstanding) =>
              /\ executed' = executed
              /\ batches' = batches
              /\ Extends(queue', queue)]_vars

\* The pump awaits the acknowledgement of a call while two commands sent
\* after the drain wait in the queue.
C18_Witness ==
    /\ pump = "await"
    /\ Len(outstanding) = 1
    /\ Len(queue) >= 2
    /\ io_handler = "running"
    /\ host = "running"

\* The resize commands of s, in order.
ResizesOf(s) == SelectSeq(s, LAMBDA c : c.kind = "Resize")

\* The last resize that was enqueued, if any, is the last resize executed
\* and the editor has acknowledged it.
Converged ==
    ResizesOf(enqueued) # <<>> =>
        /\ ResizesOf(executed) # <<>>
        /\ Last(ResizesOf(executed)) = Last(ResizesOf(enqueued))
        /\ ~Occurs(outstanding, Last(ResizesOf(enqueued)))

\* C19: whenever the queue is empty and the pump is suspended in drain, the
\* last resize executed is the last resize enqueued; and with a fair pump
\* and an acknowledging editor every behaviour ends up, once no more
\* commands are enqueued, with the final resize applied, unless the editor
\* session or the host has ended.
C19_ResizeConvergence ==
    /\ [](Quiescent => Converged)
    /\ <>[](Converged \/ IoDone \/ ~Running)

\* Three resizes were enqueued, fewer were executed, the pump is idle again
\* and the last one executed is the last one enqueued.
C19_Witness ==
    /\ Quiescent
    /\ io_handler = "running"
    /\ Len(ResizesOf(enqueued)) = 3
    /\ Len(ResizesOf(executed)) < 3
    /\ Last(ResizesOf(executed)) = Last(ResizesOf(enqueued))
    /\ outstanding = <<>>

\* C20: no step of the program releases the Bridge's producer end; while a
\* producer end is held an empty queue suspends the pump instead of ending
\* it, the pump has not left its loop through the closed-queue branch and
\* the consumer end is gone only if the pump ended with the editor session;
\* so queue_command fails to send only after such an end of the pump.
C20_PumpOutlivedBySender ==
    /\ [][Next => sender' >= sender]_vars
    /\ [](sender > 0 => pump # "done")
    /\ []((sender > 0 /\ pump = "recv" /\ queue = <<>>) => ~ENABLED recv)
    /\ [][pump' # pump /\ pump' = "done" =>
              (sender = 0 /\ queue = <<>> /\ pump = "recv")]_vars
    /\ []((sender > 0 /\ receiver = "dropped") => (pump = "dead" /\ IoDone))
    /\ [](explanation = "Could Not Send UI Command" => (pump = "dead" /\ sender > 0))

\* The Bridge holds its producer end, every command sent so far has been
\* executed and acknowledged, and the pump is suspended on the empty queue.
C20_Witness ==
    /\ sender = 1
    /\ pump = "recv"
    /\ queue = <<>>
    /\ Len(enqueued) >= 2
    /\ Len(executed) = Len(enqueued)
    /\ receiver # "dropped"
    /\ host = "running"

====
